---- MODULE Spec2Model ----
(***************************************************************************)
(* A model of the foundation layer of the 2D rocket flight simulation:     *)
(*   sim/utils.py   wrap_angle, rotation_matrix, body_to_world             *)
(*   sim/state.py   RocketState, to_array, from_array                      *)
(*   sim/config.py  the configuration dataclasses and derived properties   *)
(*   sim/result.py  FlightRecord, SimulationResult and its accessors       *)
(*                                                                         *)
(* Numbers are exact fixed-point integers.  Angles are counted in units of *)
(* pi/12 (15 degrees); sines and cosines are scaled by 1000; dt and t_end  *)
(* are counted in milliseconds.  Floating-point rounding is not modelled.  *)
(*                                                                         *)
(* Python objects live in heaps (sequences indexed by reference), so that  *)
(* two names for one object are two equal references.                      *)
(***************************************************************************)
EXTENDS Integers, Sequences, FiniteSets, TLC

VARIABLES
    theta,      \* kinematics: the input angle, in units of pi/12
    vec_body,   \* kinematics: the input body-frame vector
    wrapped,    \* <<>> or <<wrap_angle(theta)>>
    vec_world,  \* <<>> or body_to_world(vec_body, theta), scaled by 1000
    s,          \* state plumbing: the input RocketState
    arr,        \* <<>> or s.to_array()
    s2,         \* <<>> or <<RocketState.from_array(arr)>>
    parts,      \* heap of sub-config objects: [kind, f (the fields)]
    sims,       \* heap of SimulationConfig objects
    rstates,    \* heap of RocketState objects held by FlightRecords
    recs,       \* heap of FlightRecord objects
    lists,      \* heap of Python lists of FlightRecord references
    results,    \* heap of SimulationResult objects
    calls,      \* history: per SimulationResult, the records appended, in call order
    last,       \* the last operation performed and what it returned
    nops        \* number of operations performed so far

vars == <<theta, vec_body, wrapped, vec_world, s, arr, s2, parts, sims,
          rstates, recs, lists, results, calls, last, nops>>

kinVars == <<theta, vec_body, wrapped, vec_world>>
stateVars == <<s, arr, s2>>
configVars == <<parts, sims>>
resultVars == <<rstates, recs, lists, results, calls>>

(***************************************************************************)
(* Bounds of the model.                                                    *)
(***************************************************************************)
MaxTheta == 36      \* input angles range over -MaxTheta..MaxTheta (3*pi)
MaxField == 1       \* RocketState fields of the round trip range over -MaxField..MaxField
MaxOps == 3         \* operations performed on the heaps in one behaviour

(***************************************************************************)
(* sim/utils.py                                                            *)
(***************************************************************************)
\* math.pi, in units of pi/12.
PI == 12

\* math.sin on multiples of pi/12, scaled by 1000 and rounded.
SinTable == <<0, 259, 500, 707, 866, 966, 1000>>

RECURSIVE Sin(_)
Sin(a) ==
    LET m == a % (2 * PI)
    IN  IF m <= 6 THEN SinTable[m + 1]
        ELSE IF m <= PI THEN SinTable[PI - m + 1]
        ELSE -Sin(m - PI)

\* math.cos: cos(a) = sin(a + pi/2).
Cos(a) == Sin(a + 6)

\* Python's float % with a positive divisor yields a result in [0, divisor),
\* as TLA+'s % does.
wrap_angle_no_shift(t) == (t % (2 * PI)) - PI

wrap_angle(t) == ((t + PI) % (2 * PI)) - PI

\* The textbook counter-clockwise rotation, [[c, -s], [s, c]].
rotation_matrix_ccw(t) == << <<Cos(t), -Sin(t)>>, <<Sin(t), Cos(t)>> >>

\* np.array([[-s, c], [c, s]]), as a sequence of rows.
rotation_matrix(t) == << <<-Sin(t), Cos(t)>>, <<Cos(t), Sin(t)>> >>

\* rotation_matrix(theta) @ vec_body
body_to_world(v, t) ==
    LET R == rotation_matrix(t)
    IN  << R[1][1] * v[1] + R[1][2] * v[2], R[2][1] * v[1] + R[2][2] * v[2] >>

(***************************************************************************)
(* sim/state.py                                                            *)
(***************************************************************************)
StateFields == {"x", "y", "vx", "vy", "theta", "omega", "mass"}

\* RocketState(): every field defaults to 0.0.
DefaultRocketState ==
    [x |-> 0, y |-> 0, vx |-> 0, vy |-> 0, theta |-> 0, omega |-> 0, mass |-> 0]

to_array(st) == <<st.x, st.y, st.vx, st.vy, st.theta, st.omega, st.mass>>

from_array_swapped(a) ==
    [x |-> a[1], y |-> a[2], vx |-> a[4], vy |-> a[3],
     theta |-> a[5], omega |-> a[6], mass |-> a[7]]

from_array(a) ==
    [x |-> a[1], y |-> a[2], vx |-> a[3], vy |-> a[4],
     theta |-> a[5], omega |-> a[6], mass |-> a[7]]

(***************************************************************************)
(* sim/config.py.  Units of the fields: masses kg, max_thrust N, Isp s,    *)
(* length m, diameter cm, drag_coeff tenths, moment_of_inertia kg*m^2,     *)
(* cg_offset and cp_offset dm, angles degrees, gravity cm/s^2, air_density *)
(* g/m^3, sample rates Hz, noise, bias and Kalman standard deviations      *)
(* thousandths of their unit, controller gains tenths.                     *)
(***************************************************************************)
DefaultRocketConfig ==
    [dry_mass |-> 50, fuel_mass |-> 30, max_thrust |-> 1200, Isp |-> 220,
     length |-> 2, diameter |-> 15, drag_coeff |-> 4, moment_of_inertia |-> 80,
     cg_offset |-> 8, cp_offset |-> 12, max_gimbal_angle |-> 5]

DefaultEnvironmentConfig == [gravity |-> 981, air_density |-> 1225]

DefaultSensorConfig ==
    [accel_noise_std |-> 500, accel_bias |-> 20, accel_sample_rate |-> 100,
     gyro_noise_std |-> 10, gyro_bias |-> 1, gyro_sample_rate |-> 100,
     altimeter_noise_std |-> 1000, altimeter_bias |-> 500, altimeter_sample_rate |-> 50,
     gps_pos_noise_std |-> 2000, gps_vel_noise_std |-> 300, gps_sample_rate |-> 10]

DefaultKalmanConfig ==
    [process_noise_pos |-> 100, process_noise_vel |-> 1000,
     process_noise_theta |-> 10, process_noise_omega |-> 100,
     initial_pos_std |-> 5000, initial_vel_std |-> 1000,
     initial_theta_std |-> 100, initial_omega_std |-> 50]

DefaultControllerConfig ==
    [Kp |-> 100, Ki |-> 5, Kd |-> 50, target_theta |-> 0,
     output_min |-> -5, output_max |-> 5, integral_limit |-> 5]

\* The sub-config fields of SimulationConfig, in declaration order.
KindOrder == <<"rocket", "environment", "sensor", "kalman", "controller">>
Kinds == {KindOrder[i] : i \in 1..Len(KindOrder)}

\* What the dataclass-generated __init__ of each sub-config yields with no arguments.
Defaults(kind) ==
    CASE kind = "rocket" -> DefaultRocketConfig
      [] kind = "environment" -> DefaultEnvironmentConfig
      [] kind = "sensor" -> DefaultSensorConfig
      [] kind = "kalman" -> DefaultKalmanConfig
      [] kind = "controller" -> DefaultControllerConfig

\* The dataclass-generated __init__ with keyword overrides ov (a function
\* from the overridden field names to their values).
Construct(kind, ov) ==
    [k \in DOMAIN Defaults(kind) |-> IF k \in DOMAIN ov THEN ov[k] ELSE Defaults(kind)[k]]

\* SimulationConfig's defaults: dt = 0.01 s, t_end = 30 s, t_burn = 10 s, in ms.
DefaultSim == [dt |-> 10, t_end |-> 30000, t_burn |-> 10000]

total_mass_of_defaults(f) == DefaultRocketConfig.dry_mass + DefaultRocketConfig.fuel_mass

\* RocketConfig.total_mass, a property computed on every read.
total_mass(f) == f.dry_mass + f.fuel_mass

\* Python's int() of the quotient a / b: truncation toward zero.
PyIntDiv(a, b) ==
    LET q == (IF a < 0 THEN -a ELSE a) \div (IF b < 0 THEN -b ELSE b)
    IN  IF (a < 0) = (b < 0) THEN q ELSE -q

n_steps_rounded(c) == PyIntDiv(2 * c.t_end + c.dt, 2 * c.dt)

\* SimulationConfig.n_steps: int(self.t_end / self.dt), for dt # 0.
n_steps(c) == PyIntDiv(c.t_end, c.dt)

\* The sub-config kinds a construction leaves to their default_factory.
FreshKinds(args) == SelectSeq(KindOrder, LAMBDA k : args[k] = 0)

shared_default_ref(ps, args, k) ==
    IF \E r \in 1..Len(ps) : ps[r].kind = k
    THEN CHOOSE r \in 1..Len(ps) : ps[r].kind = k /\ \A q \in 1..(r - 1) : ps[q].kind # k
    ELSE Len(ps) + (CHOOSE i \in 1..Len(FreshKinds(args)) : FreshKinds(args)[i] = k)

\* field(default_factory=...): the reference of the object the factory makes
\* for kind k, a new object on the heap ps.
default_factory_ref(ps, args, k) ==
    Len(ps) + (CHOOSE i \in 1..Len(FreshKinds(args)) : FreshKinds(args)[i] = k)

\* The references of a SimulationConfig's sub-configs.
PartsOf(c) == {c.sub[k] : k \in Kinds}

(***************************************************************************)
(* sim/result.py                                                           *)
(***************************************************************************)
\* FlightRecord(time=t, state=st, thrust=thr): st is a RocketState
\* reference; the remaining fields keep their defaults of 0.0.
FlightRecord(t, st, thr) ==
    [time |-> t, state |-> st, thrust |-> thr, gimbal_angle |-> 0,
     accel_reading |-> 0, gyro_reading |-> 0, altimeter_reading |-> 0,
     gps_x_reading |-> 0, gps_y_reading |-> 0,
     estimated_x |-> 0, estimated_y |-> 0, estimated_vx |-> 0,
     estimated_vy |-> 0, estimated_theta |-> 0, estimated_omega |-> 0]

\* field(default_factory=list): the reference of the new list the factory
\* makes on the heap ls.
default_factory_list(ls) == Len(ls) + 1

list_prepend(l, rec) == <<rec>> \o l

\* list.append
list_append(l, rec) == Append(l, rec)

\* result.records, the list object the result holds.
Records(r) == lists[results[r].records]

\* The array accessors: np.array of a comprehension over self.records.
result_times(r) == [i \in 1..Len(Records(r)) |-> recs[Records(r)[i]].time]
result_x(r) == [i \in 1..Len(Records(r)) |-> rstates[recs[Records(r)[i]].state].x]
result_y(r) == [i \in 1..Len(Records(r)) |-> rstates[recs[Records(r)[i]].state].y]
result_vx(r) == [i \in 1..Len(Records(r)) |-> rstates[recs[Records(r)[i]].state].vx]
result_vy(r) == [i \in 1..Len(Records(r)) |-> rstates[recs[Records(r)[i]].state].vy]
result_theta(r) == [i \in 1..Len(Records(r)) |-> rstates[recs[Records(r)[i]].state].theta]
result_omega(r) == [i \in 1..Len(Records(r)) |-> rstates[recs[Records(r)[i]].state].omega]
result_mass(r) == [i \in 1..Len(Records(r)) |-> rstates[recs[Records(r)[i]].state].mass]
result_thrust(r) == [i \in 1..Len(Records(r)) |-> recs[Records(r)[i]].thrust]
result_gimbal(r) == [i \in 1..Len(Records(r)) |-> recs[Records(r)[i]].gimbal_angle]

\* Everything the accessors show of a result.
Arrays(r) ==
    [times |-> result_times(r), x |-> result_x(r), y |-> result_y(r),
     vx |-> result_vx(r), vy |-> result_vy(r), theta |-> result_theta(r),
     omega |-> result_omega(r), mass |-> result_mass(r),
     thrust |-> result_thrust(r), gimbal |-> result_gimbal(r)]

(***************************************************************************)
(* Idle values of each group of variables, for the specifications that do  *)
(* not exercise that group.                                                *)
(***************************************************************************)
\* What an operation leaves in `last`: its name, the object it acted on, the
\* field or kind concerned, its arguments, whether it raised, and its result.
Op(name, obj, field, args, raised, val) ==
    [op |-> name, obj |-> obj, field |-> field, args |-> args,
     raised |-> raised, val |-> val]

NoLast == Op("none", 0, "", <<>>, FALSE, 0)

KinIdle == theta = 0 /\ vec_body = <<1, 0>> /\ wrapped = <<>> /\ vec_world = <<>>
StateIdle == s = DefaultRocketState /\ arr = <<>> /\ s2 = <<>>
HeapEmpty ==
    /\ parts = <<>> /\ sims = <<>>
    /\ rstates = <<>> /\ recs = <<>> /\ lists = <<>> /\ results = <<>> /\ calls = <<>>
    /\ last = NoLast /\ nops = 0

heapVars == <<parts, sims, rstates, recs, lists, results, calls, last, nops>>

(***************************************************************************)
(* Kinematics: the pure functions applied to enumerated inputs.            *)
(***************************************************************************)
InitKin ==
    /\ theta \in -MaxTheta..MaxTheta
    /\ vec_body \in {<<1, 0>>, <<0, 1>>, <<1, 1>>, <<-1, 0>>}
    /\ wrapped = <<>>
    /\ vec_world = <<>>
    /\ StateIdle
    /\ HeapEmpty

WrapAngle ==
    /\ wrapped = <<>>
    /\ wrapped' = <<wrap_angle(theta)>>
    /\ UNCHANGED <<theta, vec_body, vec_world, stateVars, heapVars>>

BodyToWorld ==
    /\ vec_world = <<>>
    /\ vec_world' = body_to_world(vec_body, theta)
    /\ UNCHANGED <<theta, vec_body, wrapped, stateVars, heapVars>>

NextKin == WrapAngle \/ BodyToWorld

SpecKin == InitKin /\ [][NextKin]_vars

(***************************************************************************)
(* State plumbing: pack, then unpack.                                      *)
(***************************************************************************)
FieldValues == -MaxField..MaxField

InitState ==
    /\ s \in [StateFields -> FieldValues]
    /\ arr = <<>>
    /\ s2 = <<>>
    /\ KinIdle
    /\ HeapEmpty

ToArray ==
    /\ arr = <<>>
    /\ arr' = to_array(s)
    /\ UNCHANGED <<s, s2, kinVars, heapVars>>

FromArray ==
    /\ arr # <<>>
    /\ s2 = <<>>
    /\ s2' = <<from_array(arr)>>
    /\ UNCHANGED <<s, arr, kinVars, heapVars>>

NextState == ToArray \/ FromArray

SpecState == InitState /\ [][NextState]_vars

(***************************************************************************)
(* Configuration: constructors, attribute assignment, derived properties.  *)
(***************************************************************************)
\* RocketConfig(**ov), SensorConfig(**ov), ...: no validation is performed.
NewPart(kind, ov) ==
    /\ nops < MaxOps
    /\ parts' = Append(parts, [kind |-> kind, f |-> Construct(kind, ov)])
    /\ last' = Op("construct", Len(parts) + 1, kind, ov, FALSE, 0)
    /\ nops' = nops + 1
    /\ UNCHANGED <<sims, resultVars, kinVars, stateVars>>

NewRocketConfig(ov) == NewPart("rocket", ov)

NewSensorConfig(ov) == NewPart("sensor", ov)

\* SimulationConfig(dt=dt, t_end=t_end, **args): args[k] is the reference of
\* the sub-config passed for field k, or 0 when the field is left to its
\* default_factory.  No validation is performed.
NewSimulationConfig(dt, t_end, args) ==
    /\ nops < MaxOps
    /\ LET fresh == FreshKinds(args)
           sub == [k \in Kinds |->
                      IF args[k] # 0 THEN args[k] ELSE default_factory_ref(parts, args, k)]
       IN  /\ parts' = parts \o [i \in 1..Len(fresh) |->
                                    [kind |-> fresh[i], f |-> Defaults(fresh[i])]]
           /\ sims' = Append(sims, [dt |-> dt, t_end |-> t_end,
                                    t_burn |-> DefaultSim.t_burn, sub |-> sub,
                                    passed |-> {k \in Kinds : args[k] # 0}])
    /\ last' = Op("SimulationConfig", Len(sims) + 1, "", args, FALSE, 0)
    /\ nops' = nops + 1
    /\ UNCHANGED <<resultVars, kinVars, stateVars>>

\* obj.field = v on a sub-config object, e.g. cfg.rocket.max_thrust = 1500.0
SetField(ref, field, v) ==
    /\ nops < MaxOps
    /\ ref \in 1..Len(parts)
    /\ field \in DOMAIN parts[ref].f
    /\ parts' = [parts EXCEPT ![ref].f[field] = v]
    /\ last' = Op("setattr", ref, field, <<>>, FALSE, v)
    /\ nops' = nops + 1
    /\ UNCHANGED <<sims, resultVars, kinVars, stateVars>>

\* cfg.dt = v, cfg.t_end = v
SetSimField(c, field, v) ==
    /\ nops < MaxOps
    /\ c \in 1..Len(sims)
    /\ field \in {"dt", "t_end", "t_burn"}
    /\ sims' = [sims EXCEPT ![c][field] = v]
    /\ last' = Op("setattr_sim", c, field, <<>>, FALSE, v)
    /\ nops' = nops + 1
    /\ UNCHANGED <<parts, resultVars, kinVars, stateVars>>

\* cfg.n_steps: the division raises ZeroDivisionError when dt is 0.
ReadNSteps(c) ==
    /\ nops < MaxOps
    /\ c \in 1..Len(sims)
    /\ last' = IF sims[c].dt = 0
               THEN Op("n_steps", c, "", <<>>, TRUE, 0)
               ELSE Op("n_steps", c, "", <<>>, FALSE, n_steps(sims[c]))
    /\ nops' = nops + 1
    /\ UNCHANGED <<parts, sims, resultVars, kinVars, stateVars>>

\* rocket.total_mass
ReadTotalMass(ref) ==
    /\ nops < MaxOps
    /\ ref \in 1..Len(parts)
    /\ parts[ref].kind = "rocket"
    /\ last' = Op("total_mass", ref, "", <<>>, FALSE, total_mass(parts[ref].f))
    /\ nops' = nops + 1
    /\ UNCHANGED <<parts, sims, resultVars, kinVars, stateVars>>

\* Inputs of the configuration operations.
MassValues == {0, 100}
RateValues == {0, 50}
DtValues == {0, 7, 10}
TEndValues == {-10, 30000}

\* Keyword overrides: none, or one of the two masses; none, or a sample rate.
RocketOverrides ==
    UNION {[D -> MassValues] : D \in {{}, {"dry_mass"}, {"fuel_mass"}}}
SensorOverrides ==
    UNION {[D -> RateValues] : D \in {{}, {"accel_sample_rate"}}}

\* The objects of class k on the heap.
RefsOf(k) == {r \in 1..Len(parts) : parts[r].kind = k}

\* Keyword arguments of a construction that passes the sub-configs named
\* in the function `given' and leaves the others to their default_factory.
Args(given) == [k \in Kinds |-> IF k \in DOMAIN given THEN given[k] ELSE 0]

InitHeap == KinIdle /\ StateIdle /\ HeapEmpty

NextConfig ==
    \/ \E ov \in RocketOverrides : NewRocketConfig(ov)
    \/ \E ov \in SensorOverrides : NewSensorConfig(ov)
    \/ \E dt \in DtValues, te \in TEndValues :
          \E r \in {0} \cup RefsOf("rocket") :
              NewSimulationConfig(dt, te, Args([rocket |-> r]))
    \/ \E ref \in RefsOf("rocket"), v \in MassValues :
          \E field \in {"dry_mass", "fuel_mass"} : SetField(ref, field, v)
    \/ \E ref \in RefsOf("sensor"), v \in RateValues :
          SetField(ref, "accel_sample_rate", v)
    \/ \E c \in 1..Len(sims), v \in DtValues : SetSimField(c, "dt", v)
    \/ \E c \in 1..Len(sims), v \in TEndValues : SetSimField(c, "t_end", v)
    \/ \E c \in 1..Len(sims) : ReadNSteps(c)
    \/ \E ref \in 1..Len(parts) : ReadTotalMass(ref)

SpecConfig == InitHeap /\ [][NextConfig]_vars

(***************************************************************************)
(* Flight data logging.                                                    *)
(***************************************************************************)
\* SimulationResult(): arg = 0 leaves records to its default_factory;
\* SimulationResult(records=lst): arg is the reference of the list passed.
NewSimulationResult(arg) ==
    /\ nops < MaxOps
    /\ arg \in 0..Len(lists)
    /\ lists' = IF arg = 0 THEN Append(lists, <<>>) ELSE lists
    /\ results' = Append(results,
                         [records |-> IF arg = 0 THEN default_factory_list(lists) ELSE arg,
                          passed |-> arg # 0])
    /\ calls' = Append(calls, <<>>)
    /\ last' = Op("SimulationResult", Len(results) + 1, "", <<arg>>, FALSE, 0)
    /\ nops' = nops + 1
    /\ UNCHANGED <<rstates, recs, configVars, kinVars, stateVars>>

\* RocketState(**ov)
NewRocketState(ov) ==
    /\ nops < MaxOps
    /\ rstates' = Append(rstates,
                         [k \in StateFields |->
                             IF k \in DOMAIN ov THEN ov[k] ELSE DefaultRocketState[k]])
    /\ last' = Op("RocketState", Len(rstates) + 1, "", ov, FALSE, 0)
    /\ nops' = nops + 1
    /\ UNCHANGED <<recs, lists, results, calls, configVars, kinVars, stateVars>>

\* FlightRecord(time=t): st = 0 leaves state to its default_factory, a new
\* RocketState(); FlightRecord(time=t, state=state): st is the reference passed.
NewFlightRecord(t, st) ==
    /\ nops < MaxOps
    /\ st \in 0..Len(rstates)
    /\ rstates' = IF st = 0 THEN Append(rstates, DefaultRocketState) ELSE rstates
    /\ recs' = Append(recs, FlightRecord(t, IF st = 0 THEN Len(rstates) + 1 ELSE st, 0))
    /\ last' = Op("FlightRecord", Len(recs) + 1, "", <<st>>, FALSE, 0)
    /\ nops' = nops + 1
    /\ UNCHANGED <<lists, results, calls, configVars, kinVars, stateVars>>

\* result.append(record) with a record the caller already holds.
AppendRecord(r, rec) ==
    /\ nops < MaxOps
    /\ r \in 1..Len(results)
    /\ rec \in 1..Len(recs)
    /\ lists' = [lists EXCEPT ![results[r].records] = list_append(@, rec)]
    /\ calls' = [calls EXCEPT ![r] = Append(@, rec)]
    /\ last' = Op("append", r, "", <<rec>>, FALSE, 0)
    /\ nops' = nops + 1
    /\ UNCHANGED <<rstates, recs, results, configVars, kinVars, stateVars>>

\* One logging step, as the caller writes it:
\*   state = RocketState(y=in.y)
\*   record = FlightRecord(time=in.time, state=state, thrust=in.thrust)
\*   result.append(record)
\* The caller keeps its references to state and record.
LogStep(r, in) ==
    /\ nops < MaxOps
    /\ r \in 1..Len(results)
    /\ rstates' = Append(rstates, [DefaultRocketState EXCEPT !.y = in.y])
    /\ recs' = Append(recs, FlightRecord(in.time, Len(rstates) + 1, in.thrust))
    /\ lists' = [lists EXCEPT ![results[r].records] = list_append(@, Len(recs) + 1)]
    /\ calls' = [calls EXCEPT ![r] = Append(@, Len(recs) + 1)]
    /\ last' = Op("append", r, "", <<Len(recs) + 1>>, FALSE, 0)
    /\ nops' = nops + 1
    /\ UNCHANGED <<results, configVars, kinVars, stateVars>>

\* record.field = v
SetRecordField(rec, field, v) ==
    /\ nops < MaxOps
    /\ rec \in 1..Len(recs)
    /\ field \in DOMAIN recs[rec] \ {"state"}
    /\ recs' = [recs EXCEPT ![rec][field] = v]
    /\ last' = Op("setattr_record", rec, field, <<>>, FALSE, v)
    /\ nops' = nops + 1
    /\ UNCHANGED <<rstates, lists, results, calls, configVars, kinVars, stateVars>>

\* state.field = v
SetStateField(st, field, v) ==
    /\ nops < MaxOps
    /\ st \in 1..Len(rstates)
    /\ field \in StateFields
    /\ rstates' = [rstates EXCEPT ![st][field] = v]
    /\ last' = Op("setattr_state", st, field, <<>>, FALSE, v)
    /\ nops' = nops + 1
    /\ UNCHANGED <<recs, lists, results, calls, configVars, kinVars, stateVars>>

\* Inputs of the logging operations.
LogInputs == {[time |-> 0, y |-> 0, thrust |-> 1200], [time |-> 1, y |-> 5, thrust |-> 0]}
WriteValues == {3}

StateOverrides == {<<>>, [y |-> 5], [mass |-> 80]}

NextResult ==
    \/ \E arg \in 0..Len(lists) : NewSimulationResult(arg)
    \/ \E ov \in StateOverrides : NewRocketState(ov)
    \/ \E t \in {0, 1}, st \in 0..Len(rstates) : NewFlightRecord(t, st)
    \/ \E r \in 1..Len(results), in \in LogInputs : LogStep(r, in)
    \/ \E r \in 1..Len(results), rec \in 1..Len(recs) : AppendRecord(r, rec)
    \/ \E rec \in 1..Len(recs), v \in WriteValues :
          \E field \in {"time", "thrust", "gimbal_angle"} : SetRecordField(rec, field, v)
    \/ \E st \in 1..Len(rstates), v \in WriteValues :
          \E field \in StateFields : SetStateField(st, field, v)

SpecResult == InitHeap /\ [][NextResult]_vars

(***************************************************************************)
(* Default-constructed aggregates next to aggregates built from parts of   *)
(* others: configurations with default scalars, any one sub-config passed. *)
(***************************************************************************)
NextShare ==
    \/ NewSimulationConfig(DefaultSim.dt, DefaultSim.t_end, Args(<<>>))
    \/ \E k \in Kinds : \E ref \in RefsOf(k) :
          NewSimulationConfig(DefaultSim.dt, DefaultSim.t_end, Args(k :> ref))
    \/ \E ref \in 1..Len(parts), v \in WriteValues :
          \E field \in DOMAIN parts[ref].f : SetField(ref, field, v)
    \/ \E arg \in 0..Len(lists) : NewSimulationResult(arg)
    \/ \E r \in 1..Len(results), in \in LogInputs : LogStep(r, in)

SpecShare == InitHeap /\ [][NextShare]_vars

(***************************************************************************)
(* C1 (as stated): wrap_angle(theta) lies in (-pi, pi], an input of pi or  *)
(* of any odd multiple of pi yields +pi, and an input inside (-pi, pi] is  *)
(* returned unchanged.                                                     *)
(***************************************************************************)
C1_HalfOpenAbove ==
    wrapped # <<>> =>
        /\ wrapped[1] > -PI /\ wrapped[1] <= PI
        /\ (theta % (2 * PI) = PI => wrapped[1] = PI)
        /\ (theta > -PI /\ theta <= PI => wrapped[1] = theta)

(***************************************************************************)
(* C1 (amended): wrap_angle(theta) lies in [-pi, pi), it differs from      *)
(* theta by a multiple of 2*pi, an odd multiple of pi yields -pi, and an   *)
(* input inside [-pi, pi) is returned unchanged.                           *)
(***************************************************************************)
C1_HalfOpenBelow ==
    wrapped # <<>> =>
        /\ wrapped[1] >= -PI /\ wrapped[1] < PI
        /\ (wrapped[1] - theta) % (2 * PI) = 0
        /\ (theta % (2 * PI) = PI => wrapped[1] = -PI)
        /\ (theta >= -PI /\ theta < PI => wrapped[1] = theta)

C1_Witness == wrapped # <<>> /\ theta = PI /\ wrapped[1] = -PI

(***************************************************************************)
(* C2: positive theta rotates clockwise: for 0 < theta < pi the nose axis  *)
(* [1, 0] has a strictly positive world-x component; at theta = pi/2 it    *)
(* maps to world [1, 0] and at theta = -pi/2 to world [-1, 0].             *)
(***************************************************************************)
C2_PositiveThetaClockwise ==
    (vec_world # <<>> /\ vec_body = <<1, 0>>) =>
        /\ (0 < theta /\ theta < PI => vec_world[1] > 0)
        /\ (theta = 6 => vec_world = <<1000, 0>>)
        /\ (theta = -6 => vec_world = <<-1000, 0>>)

(***************************************************************************)
(* C9: at theta = 0 the body thrust axis [1, 0] maps exactly to world      *)
(* [0, 1] and the body perpendicular axis [0, 1] maps to world [1, 0].     *)
(***************************************************************************)
C9_NoseUp ==
    (vec_world # <<>> /\ theta = 0) =>
        /\ (vec_body = <<1, 0>> => vec_world = <<0, 1000>>)
        /\ (vec_body = <<0, 1>> => vec_world = <<1000, 0>>)

C9_Witness == vec_world = <<0, 1000>> /\ theta = 0 /\ vec_body = <<1, 0>>

(***************************************************************************)
(* C6: to_array(s) is the 7-element sequence [x, y, vx, vy, theta, omega,  *)
(* mass] in that order, and from_array(to_array(s)) equals s in every one  *)
(* of the seven fields.                                                    *)
(***************************************************************************)
C6_RoundTrip ==
    /\ arr # <<>> =>
          /\ Len(arr) = 7
          /\ arr[1] = s.x /\ arr[2] = s.y /\ arr[3] = s.vx /\ arr[4] = s.vy
          /\ arr[5] = s.theta /\ arr[6] = s.omega /\ arr[7] = s.mass
    /\ s2 # <<>> => \A f \in StateFields : s2[1][f] = s[f]

C6_Witness == s2 # <<>> /\ s2[1] = s /\ s.vx # s.vy /\ s.x # s.mass

(***************************************************************************)
(* C3: a construction with a non-positive mass, sample rate, dt or t_end   *)
(* is rejected, so no configuration object holding such a value exists     *)
(* after a construction, and reading n_steps never is where the violation  *)
(* first surfaces (it never raises).                                       *)
(***************************************************************************)
ValidPart(p) ==
    /\ p.kind = "rocket" => p.f.dry_mass > 0 /\ p.f.dry_mass + p.f.fuel_mass > 0
    /\ p.kind = "sensor" =>
          /\ p.f.accel_sample_rate > 0 /\ p.f.gyro_sample_rate > 0
          /\ p.f.altimeter_sample_rate > 0 /\ p.f.gps_sample_rate > 0

\* C3: every object a construction returns holds positive mass, sample rates,
\* dt and t_end, and reading n_steps never raises.
C3_FailFastAtConstruction ==
    /\ last.op = "construct" => ValidPart(parts[last.obj])
    /\ last.op = "SimulationConfig" =>
          /\ sims[last.obj].dt > 0 /\ sims[last.obj].t_end > 0
          /\ \A r \in PartsOf(sims[last.obj]) : ValidPart(parts[r])
    /\ last.op = "n_steps" => ~last.raised

C8_Step ==
    /\ last'.op = "total_mass" =>
          last'.val = parts'[last'.obj].f.dry_mass + parts'[last'.obj].f.fuel_mass
    /\ (last'.op = "construct" /\ last'.field = "rocket") =>
          \A k \in DOMAIN DefaultRocketConfig :
              parts'[last'.obj].f[k] =
                  IF k \in DOMAIN last'.args THEN last'.args[k] ELSE DefaultRocketConfig[k]
    /\ last'.op = "setattr" =>
          /\ parts'[last'.obj].f[last'.field] = last'.val
          /\ Len(parts') = Len(parts)
          /\ \A r \in 1..Len(parts) : \A k \in DOMAIN parts[r].f :
                (r # last'.obj \/ k # last'.field) => parts'[r].f[k] = parts[r].f[k]

\* C8: every read of total_mass returns the current dry_mass + fuel_mass, and
\* every override or assignment changes the named field only.
C8_TotalMassNeverStale == [][C8_Step]_vars

C8_Witness ==
    /\ last.op = "total_mass" /\ last.val = 130 /\ nops = 3
    /\ parts[last.obj].f.dry_mass = 100 /\ parts[last.obj].f.fuel_mass = 30

(***************************************************************************)
(* C4: once a record has been appended to a SimulationResult, the values   *)
(* logged for that step, read through result.records and the array         *)
(* accessors, never change under any later operation, including the        *)
(* caller assigning to fields of the record or of the RocketState it       *)
(* passed in.                                                              *)
(***************************************************************************)
Row(r, i) == [record |-> Records(r)[i],
              fields |-> recs[Records(r)[i]],
              arrays |-> [a \in DOMAIN Arrays(r) |-> Arrays(r)[a][i]]]

\* C4: no step changes the row logged at an index of a result.
C4_LoggedValuesNeverChange ==
    [][\A r \in 1..Len(results) : \A i \in 1..Len(Records(r)) :
          Row(r, i)' = Row(r, i)]_vars

(***************************************************************************)
(* C5: after n calls to append on a fresh SimulationResult (one made by    *)
(* SimulationResult() whose list no other result holds), records has       *)
(* length n and holds the appended records in call order, and every array  *)
(* accessor returns a length-n sequence whose i-th element is that field   *)
(* of the i-th appended record; an append never removes, replaces or       *)
(* reorders an earlier entry of any list.                                  *)
(***************************************************************************)
Fresh(r) ==
    /\ ~results[r].passed
    /\ \A q \in 1..Len(results) : q # r => results[q].records # results[r].records

C5_Log ==
    \A r \in 1..Len(results) : Fresh(r) =>
        LET n == Len(calls[r])
            st(i) == rstates[recs[calls[r][i]].state]
        IN  /\ Len(Records(r)) = n
            /\ \A i \in 1..n : Records(r)[i] = calls[r][i]
            /\ \A a \in DOMAIN Arrays(r) : Len(Arrays(r)[a]) = n
            /\ \A i \in 1..n :
                  /\ result_times(r)[i] = recs[calls[r][i]].time
                  /\ result_x(r)[i] = st(i).x
                  /\ result_y(r)[i] = st(i).y
                  /\ result_vx(r)[i] = st(i).vx
                  /\ result_vy(r)[i] = st(i).vy
                  /\ result_theta(r)[i] = st(i).theta
                  /\ result_omega(r)[i] = st(i).omega
                  /\ result_mass(r)[i] = st(i).mass
                  /\ result_thrust(r)[i] = recs[calls[r][i]].thrust
                  /\ result_gimbal(r)[i] = recs[calls[r][i]].gimbal_angle

C5_AppendKeepsEarlier ==
    last'.op = "append" =>
        \A l \in 1..Len(lists) :
            /\ Len(lists'[l]) >= Len(lists[l])
            /\ SubSeq(lists'[l], 1, Len(lists[l])) = lists[l]

\* C5: every state reached keeps the log of each fresh result equal to its
\* append calls, and every append keeps the earlier entries of every list.
C5_AppendOnlyLog == [][C5_Log' /\ C5_AppendKeepsEarlier]_vars

C5_Witness ==
    \E r \in 1..Len(results) :
        /\ Fresh(r)
        /\ Len(calls[r]) = 2 /\ calls[r][1] # calls[r][2]
        /\ Records(r) = calls[r]
        /\ result_times(r) = <<0, 1>> /\ result_y(r) = <<0, 5>>

(***************************************************************************)
(* C10: for two SimulationConfig instances created without passing         *)
(* sub-configs, assigning a field of a sub-config of one leaves every      *)
(* field of the other unchanged; likewise, for two default-constructed     *)
(* SimulationResults, appending to one leaves the records of the other     *)
(* unchanged.                                                              *)
(***************************************************************************)
SimView(c) ==
    [dt |-> sims[c].dt, t_end |-> sims[c].t_end, t_burn |-> sims[c].t_burn,
     sub |-> [k \in Kinds |-> parts[sims[c].sub[k]].f]]

C10_Step ==
    /\ last'.op = "setattr" =>
          \A a \in 1..Len(sims) : \A b \in 1..Len(sims) :
              (/\ a # b /\ sims[a].passed = {} /\ sims[b].passed = {}
               /\ last'.obj \in PartsOf(sims[a]))
                  => SimView(b)' = SimView(b)
    /\ last'.op = "append" =>
          \A a \in 1..Len(results) : \A b \in 1..Len(results) :
              (/\ a # b /\ ~results[a].passed /\ ~results[b].passed
               /\ last'.obj = a)
                  => /\ Records(b)' = Records(b)
                     /\ Arrays(b)' = Arrays(b)

C10_ResultCase ==
    /\ Len(results) = 2 /\ ~results[1].passed /\ ~results[2].passed
    /\ last.op = "append" /\ last.obj = 1
    /\ Len(Records(1)) = 1 /\ Records(2) = <<>>

====
